---- MODULE Spec2Model ----
(***************************************************************************)
(* Model of streamlit_app.py: the S&P 500 / gold rotation back-test.       *)
(*                                                                         *)
(* Numbers.  The script computes on pandas float64 series.  The model      *)
(* computes on exact rationals and keeps pandas' "missing" value:          *)
(*   [k |-> "num", n, d]   the rational n/d, d > 0, in lowest terms        *)
(*   [k |-> "nan", 0, 1]   NaN                                             *)
(*   [k |-> "real", s, 1]  a finite non-zero real of sign s whose exact    *)
(*                         value is not rational (a fractional power, a    *)
(*                         square root, or a quotient of such); only its   *)
(*                         sign, its being defined and its being non-zero  *)
(*                         are kept.                                       *)
(* Float rounding is not modelled.                                         *)
(*                                                                         *)
(* Series.  A pandas Series of N days is a sequence of length N; day t     *)
(* (0-based, as in the source and the specification) is element t + 1.     *)
(***************************************************************************)
EXTENDS Integers, Sequences, FiniteSets, TLC

VARIABLES
    pc,                \* position in the script (or in a calculate_metrics call)
    data,              \* get_data's result: None, or the rows of the price frame
    ma_period,         \* window length; the script fixes 140, the model tries 1..MaxWindow
    commission_rate,   \* the slider's value / 100
    ratio,             \* locals and results of calculate_strategy_returns
    ma,
    signal,
    trades,
    strategy_return,
    final_returns,
    total_trades,      \* trades.sum()
    cum_returns,       \* the three *_Cum_Return columns
    metrics,           \* the metrics table: one calculate_metrics result per column
    current_position,  \* the position shown at the end
    returns,           \* argument of a direct calculate_metrics call
    result             \* its return value

vars == <<pc, data, ma_period, commission_rate,
          ratio, ma, signal, trades, strategy_return, final_returns,
          total_trades, cum_returns, metrics, current_position,
          returns, result>>

(***************************************************************************)
(* Bounds of the exploration.                                              *)
(***************************************************************************)
\* longest price history get_data delivers
MaxRows == 4
\* largest moving-average window tried (the script binds ma_period to 140)
MaxWindow == 3
\* longest returns series handed directly to calculate_metrics
MaxLen == 3
\* closing prices a row may hold
Prices == {1, 2}

\* trading days per year used to annualise
AnnualizationFactor == 252

(***************************************************************************)
(* float64 values                                                          *)
(***************************************************************************)
Abs(x) == IF x < 0 THEN -x ELSE x

RECURSIVE GCD(_, _)
GCD(a, b) == IF b = 0 THEN a ELSE GCD(b, a % b)

NaN == [k |-> "nan", n |-> 0, d |-> 1]

Num(n, d) ==
    LET g == GCD(Abs(n), Abs(d))
        s == IF d < 0 THEN -1 ELSE 1
    IN  [k |-> "num", n |-> (s * n) \div g, d |-> (s * d) \div g]

Real(s) == [k |-> "real", n |-> s, d |-> 1]

Zero == Num(0, 1)
One == Num(1, 1)

IsNaN(x) == x.k = "nan"

Sign(x) == IF x.n > 0 THEN 1 ELSE IF x.n < 0 THEN -1 ELSE 0

LCM(a, b) == (a \div GCD(a, b)) * b

\* x + y, x - y, x * y on exact values; NaN propagates.  Common factors are
\* cancelled before multiplying, to keep the integers small.
Add(x, y) == IF IsNaN(x) \/ IsNaN(y) THEN NaN
             ELSE LET l == LCM(x.d, y.d)
                  IN  Num(x.n * (l \div x.d) + y.n * (l \div y.d), l)

Sub(x, y) == IF IsNaN(x) \/ IsNaN(y) THEN NaN
             ELSE LET l == LCM(x.d, y.d)
                  IN  Num(x.n * (l \div x.d) - y.n * (l \div y.d), l)

Mul(x, y) == IF IsNaN(x) \/ IsNaN(y) THEN NaN
             ELSE LET g == GCD(Abs(x.n), y.d)
                      h == GCD(Abs(y.n), x.d)
                  IN  Num((x.n \div g) * (y.n \div h), (x.d \div h) * (y.d \div g))

\* x / y.  0/0 is NaN.  A non-zero numerator over zero (an infinity) does not
\* arise: prices are positive, and a running maximum of wealth is zero only
\* where the wealth itself is zero.
Div(x, y) == IF IsNaN(x) \/ IsNaN(y) \/ y.n = 0 THEN NaN
             ELSE Mul(x, Num(y.d, y.n))

\* x > y, x == y, x != y as float comparisons: any comparison with NaN is
\* False, except != which is True
GT(x, y) == /\ ~IsNaN(x) /\ ~IsNaN(y)
            /\ LET l == LCM(x.d, y.d)
               IN  x.n * (l \div x.d) > y.n * (l \div y.d)

EQ(x, y) == ~IsNaN(x) /\ ~IsNaN(y) /\ x = y

NE(x, y) == ~EQ(x, y)

Max2(x, y) == IF GT(y, x) THEN y ELSE x

Min2(x, y) == IF GT(x, y) THEN y ELSE x

(***************************************************************************)
(* pandas Series operations                                                *)
(***************************************************************************)
Days(s) == 1..Len(s)

\* pd.Series(values): the values, held as a sequence
Series(values) == values \o <<>>

\* Series.dropna()
RECURSIVE Dropna(_)
Dropna(s) == IF s = <<>> THEN <<>>
             ELSE IF IsNaN(Head(s)) THEN Dropna(Tail(s))
             ELSE <<Head(s)>> \o Dropna(Tail(s))

\* Series.sum(): NaN entries are skipped, the empty sum is 0
RECURSIVE SeriesSum(_)
SeriesSum(s) == IF s = <<>> THEN Zero
                ELSE IF IsNaN(Head(s)) THEN SeriesSum(Tail(s))
                ELSE Add(Head(s), SeriesSum(Tail(s)))

\* sum of s[lo..hi]; NaN if one of them is NaN
RECURSIVE WindowSum(_, _, _)
WindowSum(s, lo, hi) == IF lo > hi THEN Zero
                        ELSE Add(s[lo], WindowSum(s, lo + 1, hi))

\* Series.rolling(window).mean(): NaN until the window is full
RollingMean(s, window) ==
    Series([i \in Days(s) |->
        IF i < window THEN NaN
        ELSE Div(WindowSum(s, i - window + 1, i), Num(window, 1))])

\* Series.shift(1)
Shift(s) == Series([i \in Days(s) |-> IF i = 1 THEN NaN ELSE s[i - 1]])

\* Series.diff()
Diff(s) == LET prev == Shift(s)
           IN  Series([i \in Days(s) |-> Sub(s[i], prev[i])])

\* Series.abs()
SeriesAbs(s) ==
    Series([i \in Days(s) |->
        IF IsNaN(s[i]) THEN NaN ELSE Num(Abs(s[i].n), s[i].d)])

\* Series.fillna(0)
Fillna0(s) == Series([i \in Days(s) |-> IF IsNaN(s[i]) THEN Zero ELSE s[i]])

\* Series.pct_change()
PctChange(s) == LET prev == Shift(s)
                IN  Series([i \in Days(s) |-> Sub(Div(s[i], prev[i]), One)])

\* Series.cumprod(): a NaN entry yields NaN there and is skipped by the product
RECURSIVE CumprodAt(_, _)
CumprodAt(s, i) == IF i = 0 THEN One
                   ELSE IF IsNaN(s[i]) THEN CumprodAt(s, i - 1)
                   ELSE Mul(CumprodAt(s, i - 1), s[i])

Cumprod(s) ==
    Series([i \in Days(s) |-> IF IsNaN(s[i]) THEN NaN ELSE CumprodAt(s, i)])

\* Series.cummax(), on a series without NaN
RECURSIVE CummaxAt(_, _)
CummaxAt(s, i) == IF i = 1 THEN s[1] ELSE Max2(CummaxAt(s, i - 1), s[i])

Cummax(s) == Series([i \in Days(s) |-> CummaxAt(s, i)])

\* Series.min(): NaN entries are skipped; NaN if nothing is left
RECURSIVE MinOf(_)
MinOf(s) == IF s = <<>> THEN NaN
            ELSE IF Tail(s) = <<>> THEN Head(s)
            ELSE Min2(Head(s), MinOf(Tail(s)))

SeriesMin(s) == MinOf(Dropna(s))

\* 1 + s
OnePlus(s) == Series([i \in Days(s) |-> Add(One, s[i])])

\* the columns of the price frame
SP500(rows) == Series([i \in Days(rows) |-> Num(rows[i].SP500, 1)])

Gold(rows) == Series([i \in Days(rows) |-> Num(rows[i].Gold, 1)])

(***************************************************************************)
(* calculate_strategy_returns(data, ma_period, commission_rate)            *)
(***************************************************************************)
\* ratio = data['SP500'] / data['Gold']
RatioOf(rows) ==
    LET sp == SP500(rows)
        gold == Gold(rows)
    IN  Series([i \in Days(rows) |-> Div(sp[i], gold[i])])

\* signal = np.where(ratio > ma, 1, 0)
SignalOf(r, m) ==
    Series([i \in Days(r) |-> IF GT(r[i], m[i]) THEN One ELSE Zero])

\* trades = signal.diff().abs().fillna(0)
TradesOf(sig) == Fillna0(SeriesAbs(Diff(sig)))

ShiftedSignalLookAhead(sig) == sig

\* shifted_signal = signal.shift(1)
ShiftedSignal(sig) == Shift(sig)

\* strategy_return = np.where(shifted_signal == 1, sp500_return, gold_return)
StrategyReturnOf(rows, sig) ==
    LET shifted_signal == ShiftedSignal(sig)
        sp500_return == PctChange(SP500(rows))
        gold_return == PctChange(Gold(rows))
    IN  Series([i \in Days(rows) |->
            IF EQ(shifted_signal[i], One) THEN sp500_return[i]
            ELSE gold_return[i]])

\* final_returns = strategy_return - trades * commission_rate
FinalReturnsOf(base, tr, rate) ==
    Series([i \in Days(base) |-> Sub(base[i], Mul(tr[i], rate))])

calculate_strategy_returns(rows, window, rate) ==
    LET r == RatioOf(rows)
        m == RollingMean(r, window)
        sig == SignalOf(r, m)
        tr == TradesOf(sig)
        base == StrategyReturnOf(rows, sig)
    IN  [final_returns |-> FinalReturnsOf(base, tr, rate),
         trades_sum |-> SeriesSum(tr),
         ratio |-> r, ma |-> m, signal |-> sig,
         trades |-> tr, strategy_return |-> base]

(***************************************************************************)
(* calculate_metrics(returns)                                              *)
(***************************************************************************)
IsZero(x) == x.k = "num" /\ x.n = 0

KeepUndefined(r) == r

\* returns = returns.dropna()
CleanReturns(r) == Dropna(r)

\* base ** (252 / count) - 1 as numpy computes it
AnnualizedReturnOf(base, count) ==
    IF IsNaN(base) THEN NaN
    ELSE IF count = AnnualizationFactor THEN Sub(base, One)
    ELSE IF base = One THEN Zero
    ELSE IF base = Zero THEN Num(-1, 1)
    ELSE IF base.n > 0 THEN Real(Sign(Sub(base, One)))
    ELSE IF AnnualizationFactor % count # 0 THEN NaN
    ELSE IF (AnnualizationFactor \div count) % 2 = 1 THEN Real(-1)
    ELSE IF base = Num(-1, 1) THEN Zero
    ELSE Real(Sign(Sub(Num(-base.n, base.d), One)))

\* Series.std(): the sample variance divides by count - 1, 0/0 for one entry
Variance(r) ==
    LET count == Len(r)
        mean == Div(SeriesSum(r), Num(count, 1))
        sq == Series([i \in Days(r) |-> Mul(Sub(r[i], mean), Sub(r[i], mean))])
    IN  Div(SeriesSum(sq), Num(count - 1, 1))

\* returns.std() * np.sqrt(252)
AnnualizedVolatilityOf(r) ==
    LET v == Variance(r)
    IN  IF IsNaN(v) THEN NaN ELSE IF IsZero(v) THEN Zero ELSE Real(1)

\* annualized_return / annualized_volatility if annualized_volatility != 0 else 0
SharpeOf(ret, vol) ==
    IF NE(vol, Zero)
    THEN IF IsNaN(ret) \/ IsNaN(vol) THEN NaN
         ELSE IF IsZero(ret) THEN Zero
         ELSE Real(Sign(ret) * Sign(vol))
    ELSE Zero

\* (wealth_index / wealth_index.cummax() - 1).min()
MaxDrawdownOf(wealth) ==
    LET peak == Cummax(wealth)
    IN  SeriesMin(Series([i \in Days(wealth) |->
                             Sub(Div(wealth[i], peak[i]), One)]))

\* steps lists the numeric steps the call went through
calculate_metrics(rs) ==
    LET r == CleanReturns(rs) IN
    IF Len(r) = 0
    THEN [total_return |-> Zero, annualized_return |-> Zero,
          annualized_volatility |-> Zero, sharpe_ratio |-> Zero,
          max_drawdown |-> Zero, steps |-> {}]
    ELSE LET wealth == Cumprod(OnePlus(r))
             total == Sub(wealth[Len(r)], One)
             annual == AnnualizedReturnOf(Add(One, total), Len(r))
             vol == AnnualizedVolatilityOf(r)
         IN  [total_return |-> total, annualized_return |-> annual,
              annualized_volatility |-> vol,
              sharpe_ratio |-> SharpeOf(annual, vol),
              max_drawdown |-> MaxDrawdownOf(wealth),
              steps |-> {"product", "exponentiation", "deviation", "division"}]

MetricNames ==
    {"total_return", "annualized_return", "annualized_volatility",
     "sharpe_ratio", "max_drawdown"}

(***************************************************************************)
(* The script, top to bottom                                               *)
(***************************************************************************)
Rows == [SP500 : Prices, Gold : Prices]

Frames == UNION {[1..n -> Rows] : n \in 0..MaxRows}

\* the slider's two ends: 0 % and 1 %
CommissionRates == {Zero, Num(1, 100)}

Init ==
    /\ pc = "start"
    /\ data = [none |-> TRUE, rows |-> <<>>]
    /\ ma_period \in 1..MaxWindow
    /\ commission_rate \in CommissionRates
    /\ ratio = <<>> /\ ma = <<>> /\ signal = <<>> /\ trades = <<>>
    /\ strategy_return = <<>> /\ final_returns = <<>>
    /\ total_trades = Zero
    /\ cum_returns = <<>>
    /\ metrics = <<>>
    /\ current_position = "none"
    /\ returns = <<>>
    /\ result = <<>>

\* get_data: the download succeeds; data.ffill().dropna() leaves rows without
\* a missing value, possibly none at all
GetData ==
    /\ pc = "start"
    /\ \E rows \in Frames : data' = [none |-> FALSE, rows |-> rows]
    /\ pc' = "fetched"
    /\ UNCHANGED <<ma_period, commission_rate, ratio, ma, signal, trades,
                   strategy_return, final_returns, total_trades, cum_returns,
                   metrics, current_position, returns, result>>

\* get_data: an exception is caught, the error is shown, None is returned
GetDataFails ==
    /\ pc = "start"
    /\ data' = [none |-> TRUE, rows |-> <<>>]
    /\ pc' = "fetched"
    /\ UNCHANGED <<ma_period, commission_rate, ratio, ma, signal, trades,
                   strategy_return, final_returns, total_trades, cum_returns,
                   metrics, current_position, returns, result>>

\* if data is not None: calculate_strategy_returns(data, ma_period, commission_rate)
CalculateStrategy ==
    /\ pc = "fetched"
    /\ ~data.none
    /\ LET out == calculate_strategy_returns(data.rows, ma_period, commission_rate)
       IN  /\ final_returns' = out.final_returns
           /\ total_trades' = out.trades_sum
           /\ ratio' = out.ratio
           /\ ma' = out.ma
           /\ signal' = out.signal
           /\ trades' = out.trades
           /\ strategy_return' = out.strategy_return
    /\ pc' = "strategy"
    /\ UNCHANGED <<data, ma_period, commission_rate, cum_returns, metrics,
                   current_position, returns, result>>

\* else: st.error("No se pudieron cargar los datos ...")
ReportNoData ==
    /\ pc = "fetched"
    /\ data.none
    /\ pc' = "error"
    /\ UNCHANGED <<data, ma_period, commission_rate, ratio, ma, signal, trades,
                   strategy_return, final_returns, total_trades, cum_returns,
                   metrics, current_position, returns, result>>

\* data[f'{col}_Cum_Return'] = (1 + data[f'{col}_Return']).cumprod()
CumulativeReturns ==
    /\ pc = "strategy"
    /\ cum_returns' =
         [Strategy |-> Cumprod(OnePlus(final_returns)),
          SP500 |-> Cumprod(OnePlus(PctChange(SP500(data.rows)))),
          Gold |-> Cumprod(OnePlus(PctChange(Gold(data.rows))))]
    /\ pc' = "cumulative"
    /\ UNCHANGED <<data, ma_period, commission_rate, ratio, ma, signal, trades,
                   strategy_return, final_returns, total_trades, metrics,
                   current_position, returns, result>>

\* metrics = pd.DataFrame({'Estrategia': calculate_metrics(...), ...})
ComputeMetrics ==
    /\ pc = "cumulative"
    /\ metrics' =
         [Estrategia |-> calculate_metrics(final_returns),
          SP500 |-> calculate_metrics(PctChange(SP500(data.rows))),
          Oro |-> calculate_metrics(PctChange(Gold(data.rows)))]
    /\ pc' = "metrics"
    /\ UNCHANGED <<data, ma_period, commission_rate, ratio, ma, signal, trades,
                   strategy_return, final_returns, total_trades, cum_returns,
                   current_position, returns, result>>

\* current_ratio = data['SP500'].iloc[-1] / data['Gold'].iloc[-1];
\* current_position from current_ratio > current_ma
CurrentPosition ==
    /\ pc = "metrics"
    /\ Len(data.rows) > 0
    /\ LET last == Len(data.rows)
           current_ratio == Div(SP500(data.rows)[last], Gold(data.rows)[last])
           current_ma == ma[last]
       IN  current_position' =
             IF GT(current_ratio, current_ma) THEN "SP500" ELSE "Gold"
    /\ pc' = "done"
    /\ UNCHANGED <<data, ma_period, commission_rate, ratio, ma, signal, trades,
                   strategy_return, final_returns, total_trades, cum_returns,
                   metrics, returns, result>>

\* .iloc[-1] on a frame without rows raises IndexError, which nothing catches
CurrentPositionRaises ==
    /\ pc = "metrics"
    /\ Len(data.rows) = 0
    /\ pc' = "raised"
    /\ UNCHANGED <<data, ma_period, commission_rate, ratio, ma, signal, trades,
                   strategy_return, final_returns, total_trades, cum_returns,
                   metrics, current_position, returns, result>>

Next ==
    \/ GetData
    \/ GetDataFails
    \/ CalculateStrategy
    \/ ReportNoData
    \/ CumulativeReturns
    \/ ComputeMetrics
    \/ CurrentPosition
    \/ CurrentPositionRaises

Spec == Init /\ [][Next]_vars

(***************************************************************************)
(* calculate_metrics on its own, applied to any returns series             *)
(***************************************************************************)
\* entries of a returns series: undefined, a total loss, losses, gains
ReturnValues == {NaN, Num(-1, 1), Num(-1, 2), Zero, Num(1, 2), One}

ReturnsSeries == UNION {[1..n -> ReturnValues] : n \in 0..MaxLen}

MetricsInit ==
    /\ pc = "call"
    /\ returns \in ReturnsSeries
    /\ result = <<>>
    /\ data = [none |-> TRUE, rows |-> <<>>]
    /\ ma_period = 1
    /\ commission_rate = Zero
    /\ ratio = <<>> /\ ma = <<>> /\ signal = <<>> /\ trades = <<>>
    /\ strategy_return = <<>> /\ final_returns = <<>>
    /\ total_trades = Zero
    /\ cum_returns = <<>>
    /\ metrics = <<>>
    /\ current_position = "none"

CallMetrics ==
    /\ pc = "call"
    /\ result' = calculate_metrics(returns)
    /\ pc' = "returned"
    /\ UNCHANGED <<data, ma_period, commission_rate, ratio, ma, signal, trades,
                   strategy_return, final_returns, total_trades, cum_returns,
                   metrics, current_position, returns>>

MetricsNext == CallMetrics

MetricsSpec == MetricsInit /\ [][MetricsNext]_vars

(***************************************************************************)
(* Properties                                                              *)
(***************************************************************************)
\* calculate_strategy_returns has returned
Computed == pc \in {"strategy", "cumulative", "metrics", "done", "raised"}

\* the three calculate_metrics calls of the script have returned
Measured == pc \in {"metrics", "done", "raised"}

N == Len(data.rows)

sp500_return == PctChange(SP500(data.rows))

gold_return == PctChange(Gold(data.rows))

\* the specification's signal is defined on day i exactly where the moving
\* average is
Defined(i) == ~IsNaN(ma[i])

\* days on which two defined signals differ
Flips == {i \in 2..N : Defined(i) /\ Defined(i - 1) /\ signal[i] # signal[i - 1]}

\* C1.  No look-ahead: on every day after the first whose previous day has a
\* defined signal, the base return is the S&P 500's return of that day if the
\* previous day's signal is 1 (hold S&P 500) and gold's if it is 0; the
\* signal of the day itself plays no part.
NoLookAhead ==
    Computed =>
        \A i \in 2..N :
            Defined(i - 1) =>
                strategy_return[i] =
                    IF signal[i - 1] = One THEN sp500_return[i] ELSE gold_return[i]

\* a day whose signal differs from the previous day's, both defined, on which
\* the two assets returned differently
NoLookAheadWitness ==
    /\ Computed
    /\ \E i \in 2..N :
          /\ Defined(i - 1)
          /\ signal[i - 1] = One
          /\ signal[i] = Zero
          /\ sp500_return[i] # gold_return[i]
          /\ strategy_return[i] = sp500_return[i]

\* C2.  Commission timing: on a day where two defined signals differ the final
\* return is the base return less the commission rate; on every other day with
\* a defined final return the final return is the base return.
CommissionTiming ==
    Computed =>
        \A i \in 1..N :
            IF i \in Flips
            THEN final_returns[i] = Sub(strategy_return[i], commission_rate)
            ELSE ~IsNaN(final_returns[i]) => final_returns[i] = strategy_return[i]

\* C3.  Undefined propagation: the final return of day t (0-based) is
\* undefined for every t below the window length and defined from there on.
UndefinedPropagation ==
    Computed =>
        \A i \in 1..N : IsNaN(final_returns[i]) <=> i - 1 < ma_period

\* C4.  Signal definition: the moving average is undefined on the first
\* window - 1 days; the signal is undefined where the moving average is, and
\* elsewhere it is 1 exactly when the ratio is strictly above the average and
\* 0 otherwise.
SignalDefinition ==
    Computed =>
        \A i \in 1..N :
            /\ IsNaN(ma[i]) <=> i < ma_period
            /\ IF IsNaN(ma[i]) THEN IsNaN(signal[i])
               ELSE signal[i] = (IF GT(ratio[i], ma[i]) THEN One ELSE Zero)

\* C5.  Insufficient data: with fewer rows than the window length the signal
\* is undefined on every day, no trade is counted and the five metrics of the
\* strategy's returns are all 0.
InsufficientData ==
    (Measured /\ N < ma_period) =>
        /\ \A i \in 1..N : IsNaN(signal[i])
        /\ total_trades = Zero
        /\ \A f \in MetricNames : metrics.Estrategia[f] = Zero

\* C6.  Metrics are well defined: for a returns series with at least one
\* defined entry none of the five metrics is NaN, and the Sharpe ratio is 0
\* whenever the annualised volatility is 0.
MetricsWellDefined ==
    (pc = "returned" /\ Dropna(returns) # <<>>) =>
        /\ \A f \in MetricNames : ~IsNaN(result[f])
        /\ IsZero(result.annualized_volatility) => IsZero(result.sharpe_ratio)

\* C7.  Empty-input sentinel: for a returns series with no defined entry the
\* five metrics are all 0 and none of the numeric steps is executed.
EmptySentinel ==
    (pc = "returned" /\ Dropna(returns) = <<>>) =>
        /\ \A f \in MetricNames : result[f] = Zero
        /\ result.steps = {}

\* a series of undefined entries only, after the call
EmptySentinelWitness ==
    /\ pc = "returned"
    /\ Len(returns) > 0
    /\ \A i \in 1..Len(returns) : IsNaN(returns[i])
    /\ result.steps = {}

\* C8.  Upstream failure short-circuit: when get_data delivers None or a frame
\* without rows, the run goes to the reported error and nowhere else: no
\* strategy, cumulative-return, metrics or current-position step, no exception.
UpstreamShortCircuit ==
    (pc # "start" /\ (data.none \/ N = 0)) => pc \in {"fetched", "error"}

\* C9.  Maximum drawdown sign: for a returns series with at least one defined
\* entry the maximum drawdown is a number, at most 0, and exactly 0 when every
\* return is positive.
MaxDrawdownSign ==
    (pc = "returned" /\ Dropna(returns) # <<>>) =>
        /\ ~IsNaN(result.max_drawdown)
        /\ ~GT(result.max_drawdown, Zero)
        /\ (\A i \in 1..Len(Dropna(returns)) : GT(Dropna(returns)[i], Zero))
              => result.max_drawdown = Zero

\* C10.  Trade count: the count of trades is the number of days on which two
\* defined signals differ, and with at least a window of rows it is at most
\* the number of rows less the window length.
TradeCount ==
    Computed =>
        /\ total_trades = Num(Cardinality(Flips), 1)
        /\ N >= ma_period => GT(Num(N - ma_period + 1, 1), total_trades)
====
